---- MODULE Spec2Model ----
(***************************************************************************)
(* Model of src/src/api/aiapi.ts: the four operations of the AI backend    *)
(* client (generateQuestionsFromDocumentAI, generateQuestionsFromTextAI,   *)
(* explainAnswerChoiceAI, sendChatMessageToAI) and the MediaDisplay        *)
(* component (a draggable, resizable media window).                        *)
(*                                                                         *)
(* JavaScript values are encoded as strings so that any two of them can be *)
(* compared: "undefined", "null", "b:true", "b:false", and "s:<text>" for  *)
(* the string <text> ("s:" is the empty string).  A value that may be an   *)
(* object is a record [kind, prim, fields]: kind "object" with its fields  *)
(* (an absent field is "undefined"), or kind "prim" with a primitive.      *)
(***************************************************************************)
EXTENDS Integers, FiniteSets, Sequences, Bags, TLC

VARIABLES
    \* ---- AI backend client ----
    op,            \* the operation last called ("none" before any call)
    request,       \* what that call handed to aiApiClient.post
    outcome,       \* what the transport layer did with it
    result,        \* the value the returned promise resolved with
    \* ---- MediaDisplay ----
    mounted,       \* the component is mounted
    viewport,      \* window.innerWidth / window.innerHeight
    media,         \* the media descriptor's kind (decides the render strategy)
    isModalOpen, position, size, isDragging, isResizing,
    dragStart, resizeStart, error, iframeError,
    listeners,     \* document-level listeners: per event type, a bag of closures
    pointerDowns,  \* pointer-downs on the window since it was mounted (bounded)
    lastEvent      \* the handler that ran last, with its pointer coordinates

clientVars == <<op, request, outcome, result>>
viewerVars == <<mounted, viewport, media, isModalOpen, position, size, isDragging,
                isResizing, dragStart, resizeStart, error, iframeError, listeners,
                pointerDowns, lastEvent>>
vars == <<clientVars, viewerVars>>

Max(a, b) == IF a >= b THEN a ELSE b
Min(a, b) == IF a <= b THEN a ELSE b

(***************************************************************************)
(* JavaScript values                                                       *)
(***************************************************************************)
Undefined == "undefined"
Null == "null"
EmptyStr == "s:"
True == "b:true"
False == "b:false"

\* ToBoolean of a primitive
Truthy(v) == v \notin {Undefined, Null, EmptyStr, False}
\* a || b on primitives
Or(a, b) == IF Truthy(a) THEN a ELSE b

Fields == {"success", "data", "explanation", "response", "thread_id", "message", "detail"}
NoFields == [f \in Fields |-> Undefined]
Prim(v) == [kind |-> "prim", prim |-> v, fields |-> NoFields]
Object(fs) == [kind |-> "object", prim |-> Undefined,
               fields |-> [f \in Fields |-> IF f \in DOMAIN fs THEN fs[f] ELSE Undefined]]
\* ToBoolean of any value: every object is truthy
TruthyVal(v) == v.kind = "object" \/ Truthy(v.prim)
\* v?.f : a property of an object; undefined on null, undefined and on a string
Get(v, f) == IF v.kind = "object" THEN v.fields[f] ELSE Undefined

(***************************************************************************)
(* The fallback messages of the client                                     *)
(***************************************************************************)
QuestionsUnexpectedMsg == "s:An unexpected error occurred with the AI service."
QuestionsConnectMsg == "s:Failed to connect to the AI service or an unexpected error occurred."
ExplainUnexpectedMsg == "s:An unexpected error with the AI explanation service."
ExplainConnectMsg == "s:Failed to connect to the AI explanation service or an unexpected error occurred."
defaultErrorMsg == "s:An unexpected error occurred with the AI chat service."

(***************************************************************************)
(* Transport outcomes of aiApiClient.post                                  *)
(*   ok            the promise resolved; data is the decoded body          *)
(*   axiosResponse it rejected with an AxiosError that carries a response  *)
(*   axiosNoResponse  an AxiosError without a response (network failure)   *)
(*   otherError    it rejected with something that is no AxiosError        *)
(***************************************************************************)
Ok(d) == [kind |-> "ok", data |-> d]
AxiosResponse(d) == [kind |-> "axiosResponse", data |-> d]
AxiosNoResponse == [kind |-> "axiosNoResponse", data |-> Prim(Undefined)]
OtherError == [kind |-> "otherError", data |-> Prim(Undefined)]
NoOutcome == [kind |-> "none", data |-> Prim(Undefined)]

\* axios.isAxiosError(error) && error.response
HasResponse(o) == o.kind = "axiosResponse"


(***************************************************************************)
(* The four client operations: the request each hands to the transport and *)
(* the value each resolves with, given the transport's outcome.            *)
(***************************************************************************)
NoRequest == [url |-> "none", user_instructions |-> Undefined,
              literal_mode |-> Undefined, thread_id |-> Undefined]

\* FormData: user_instructions is appended only when truthy, literal_mode
\* as the string 'true' or 'false'
DocumentRequest(userInstructions, literalMode) ==
    [url |-> "/api/ai/generate-questions-from-document",
     user_instructions |-> IF Truthy(userInstructions) THEN userInstructions ELSE Undefined,
     literal_mode |-> IF Truthy(literalMode) THEN "s:true" ELSE "s:false",
     thread_id |-> Undefined]

\* JSON payload: literal_mode: literalMode || false
TextRequest(userInstructions, literalMode) ==
    [url |-> "/api/ai/generate-questions-from-text",
     user_instructions |-> userInstructions,
     literal_mode |-> Or(literalMode, False),
     thread_id |-> Undefined]

ExplainRequest ==
    [url |-> "/api/ai/explain-answer-choice", user_instructions |-> Undefined,
     literal_mode |-> Undefined, thread_id |-> Undefined]

ChatRequest(threadId) ==
    [url |-> "/api/ai-chat", user_instructions |-> Undefined,
     literal_mode |-> Undefined, thread_id |-> threadId]

generateQuestionsFromDocumentAI(o) ==
    IF o.kind = "ok" THEN o.data
    ELSE IF HasResponse(o)
         THEN IF TruthyVal(o.data) THEN o.data
              ELSE Object([success |-> False, data |-> Null,
                           message |-> Or(Or(Get(o.data, "detail"), Get(o.data, "message")),
                                          QuestionsUnexpectedMsg)])
         ELSE Object([success |-> False, data |-> Null, message |-> QuestionsConnectMsg])

generateQuestionsFromTextAI(o) ==
    IF o.kind = "ok" THEN o.data
    ELSE IF HasResponse(o)
         THEN IF TruthyVal(o.data) THEN o.data
              ELSE Object([success |-> False, data |-> Null,
                           message |-> Or(Or(Get(o.data, "detail"), Get(o.data, "message")),
                                          QuestionsUnexpectedMsg)])
         ELSE Object([success |-> False, data |-> Null, message |-> QuestionsConnectMsg])

explainAnswerChoiceAI_SwappedFallback(o) ==
    IF o.kind = "ok" THEN o.data
    ELSE IF HasResponse(o)
         THEN IF TruthyVal(o.data) THEN o.data
              ELSE Object([success |-> False, explanation |-> Null,
                           message |-> ExplainConnectMsg])
         ELSE Object([success |-> False, explanation |-> Null,
                      message |-> ExplainUnexpectedMsg])

explainAnswerChoiceAI(o) ==
    IF o.kind = "ok" THEN o.data
    ELSE IF HasResponse(o)
         THEN IF TruthyVal(o.data) THEN o.data
              ELSE Object([success |-> False, explanation |-> Null,
                           message |-> Or(Or(Get(o.data, "detail"), Get(o.data, "message")),
                                          ExplainUnexpectedMsg)])
         ELSE Object([success |-> False, explanation |-> Null, message |-> ExplainConnectMsg])

\* { ...data, success: true }: the own properties of data, success overridden
SpreadWithSuccess(d) ==
    [kind |-> "object", prim |-> Undefined,
     fields |-> [f \in Fields |-> IF f = "success" THEN True ELSE Get(d, f)]]

sendChatMessageToAI_RawThreadId(threadId, o) ==
    IF o.kind = "ok" THEN SpreadWithSuccess(o.data)
    ELSE LET errorMessage ==
                 IF HasResponse(o) /\ TruthyVal(o.data)
                 THEN Or(Or(Get(o.data, "detail"), Get(o.data, "message")), defaultErrorMsg)
                 ELSE defaultErrorMsg
         IN Object([success |-> False, response |-> EmptyStr,
                    thread_id |-> threadId, message |-> errorMessage])

sendChatMessageToAI(threadId, o) ==
    IF o.kind = "ok" THEN SpreadWithSuccess(o.data)
    ELSE LET errorMessage ==
                 IF HasResponse(o) /\ TruthyVal(o.data)
                 THEN Or(Or(Get(o.data, "detail"), Get(o.data, "message")), defaultErrorMsg)
                 ELSE defaultErrorMsg
         IN Object([success |-> False, response |-> EmptyStr,
                    thread_id |-> Or(threadId, EmptyStr), message |-> errorMessage])

(***************************************************************************)
(* Inputs of the client calls                                              *)
(***************************************************************************)
DetailValues == {Undefined, EmptyStr, "s:Invalid file type"}
MessageValues == {Undefined, EmptyStr, "s:Quota exceeded"}
SuccessValues == {Undefined, False}
\* bodies of a response with a non-success status
ErrorBodies ==
    {Object([detail |-> d, message |-> m, success |-> s]) :
        d \in DetailValues, m \in MessageValues, s \in SuccessValues}
    \cup {Prim(Null), Prim(EmptyStr), Prim("s:Internal Server Error")}
QuestionBodies ==
    {Object([success |-> True, data |-> "questions"]),
     Object([success |-> False, data |-> Null, message |-> "s:No questions generated"])}
ExplainBodies ==
    {Object([success |-> True, explanation |-> "s:Because B is correct"]),
     Object([success |-> False, explanation |-> Null, message |-> "s:No explanation"])}
ChatBodies ==
    {Object([response |-> "s:Hello", thread_id |-> "s:t9"])}
FailureOutcomes == {AxiosResponse(b) : b \in ErrorBodies} \cup {AxiosNoResponse, OtherError}
Outcomes(okBodies) == {Ok(b) : b \in okBodies} \cup FailureOutcomes
ThreadIds == {Undefined, Null, EmptyStr, "s:t1"}
InstructionValues == {Undefined, "s:Focus on chapter 2"}
LiteralModes == {Undefined, True, False}

(***************************************************************************)
(* MediaDisplay: geometry                                                  *)
(***************************************************************************)
DefaultWidth == 800
DefaultHeight == 600
MinWidth == 300
MinHeight == 200
\* the resize handle is a w-4 h-4 square (16px) in the bottom-right corner
HandleSize == 16

\* Viewports the component is mounted in.  Both dimensions are multiples of
\* 40, so that innerWidth / 8 and 90vw are whole numbers of pixels.
Viewports == {[width |-> 1600, height |-> 1600], [width |-> 1280, height |-> 680]}

\* drag and resize gestures explored per mount
MaxPointerDowns == 3

\* getBoundingClientRect() of the window: style width/height, capped by
\* maxWidth: '90vw' and maxHeight: '90vh'
BoundingClientRect(sz, vp) ==
    [width |-> Min(sz.width, (9 * vp.width) \div 10),
     height |-> Min(sz.height, (9 * vp.height) \div 10)]

\* handleOpenModal: the position and the size an open sets
OpenPosition(vp) == [x |-> vp.width \div 8, y |-> vp.height \div 8]
DefaultSize == [width |-> DefaultWidth, height |-> DefaultHeight]

\* handleMouseMove while dragging, without the clamp to the viewport's far edge
DragPosition_NoUpperClamp(e, start, rect, vp) ==
    [x |-> Max(0, e.clientX - start.x), y |-> Max(0, e.clientY - start.y)]

\* handleMouseMove while dragging: the position it sets
DragPosition(e, start, rect, vp) ==
    LET newX == e.clientX - start.x
        newY == e.clientY - start.y
        maxX == vp.width - rect.width
        maxY == vp.height - rect.height
    IN [x |-> Max(0, Min(newX, maxX)), y |-> Max(0, Min(newY, maxY))]

\* handleMouseMove while resizing, without the minimum size
ResizeSize_NoMinimum(e, start, rstart) ==
    [width |-> rstart.width + (e.clientX - start.x),
     height |-> rstart.height + (e.clientY - start.y)]

\* handleMouseMove while resizing: the size it sets
ResizeSize(e, start, rstart) ==
    [width |-> Max(MinWidth, rstart.width + (e.clientX - start.x)),
     height |-> Max(MinHeight, rstart.height + (e.clientY - start.y))]

(***************************************************************************)
(* MediaDisplay: render strategy and errors                                *)
(***************************************************************************)
NoError == "null"
MediaKinds == {"image", "website"}
\* renderMedia: the strategy chosen for a descriptor kind (first match wins)
renderMedia(m) ==
    CASE m = "youtube" -> "youtubeFrame"
      [] m = "website" -> "sandboxedFrame"
      [] m = "image" -> "img"
      [] m = "video" -> "video"
      [] m = "pdf" -> "embed"
      [] m = "document" -> "documentLink"
      [] OTHER -> "mediaLink"
\* the onError message of an inline element
LoadErrorMessage(strategy) ==
    CASE strategy = "img" -> "Failed to load image"
      [] strategy = "video" -> "Failed to load video"
      [] strategy = "embed" -> "Failed to load PDF"
      [] OTHER -> NoError

(***************************************************************************)
(* MediaDisplay: document-level listeners                                  *)
(* A listener is the closure of one render: what handleMouseMove reads.    *)
(* The three handlers of one render are added and removed together.        *)
(***************************************************************************)
Closure(drag, resz, start, rstart) ==
    [isDragging |-> drag, isResizing |-> resz, dragStart |-> start, resizeStart |-> rstart]
NoListeners == [mousemove |-> EmptyBag, mouseup |-> EmptyBag, mousedown |-> EmptyBag]
AddListeners(ls, c) ==
    [mousemove |-> ls.mousemove (+) SetToBag({c}),
     mouseup |-> ls.mouseup (+) SetToBag({c}),
     mousedown |-> ls.mousedown (+) SetToBag({c})]
RemoveListeners(ls, c) ==
    [mousemove |-> ls.mousemove (-) SetToBag({c}),
     mouseup |-> ls.mouseup (-) SetToBag({c}),
     mousedown |-> ls.mousedown (-) SetToBag({c})]

\* the effect without its cleanup function
useEffect_NoCleanup(ls, depsChanged, old, open, new) ==
    IF ~depsChanged THEN ls
    ELSE IF open THEN AddListeners(ls, new) ELSE ls

\* useEffect(..., [isModalOpen, isDragging, isResizing, dragStart, position,
\* resizeStart]): when a dependency changed, the previous run's cleanup removes
\* the handlers of the render it belongs to (closure old), then the handlers
\* of the new render are added if the window is open.
useEffect(ls, depsChanged, old, open, new) ==
    IF ~depsChanged THEN ls
    ELSE LET cleaned == RemoveListeners(ls, old)
         IN IF open THEN AddListeners(cleaned, new) ELSE cleaned

\* the closure of the current render
CurrentClosure == Closure(isDragging, isResizing, dragStart, resizeStart)

(***************************************************************************)
(* Pointer inputs                                                          *)
(***************************************************************************)
\* where on the window chrome (relative to the window's corner) a drag starts
ChromeOffsets == {[x |-> 100, y |-> 20], [x |-> 400, y |-> 20]}
\* how far inside the window's bottom-right corner the resize handle is hit
HandleInsets == {0, HandleSize}
\* where pointer-move events are delivered
MovePointers == {[x |-> 0, y |-> 0], [x |-> 600, y |-> 600], [x |-> 1600, y |-> 1600]}

Event(type, x, y) == [type |-> type, clientX |-> x, clientY |-> y]
NoEvent == Event("none", 0, 0)

(***************************************************************************)
(* Initial states                                                          *)
(***************************************************************************)
InitClient ==
    /\ op = "none"
    /\ request = NoRequest
    /\ outcome = NoOutcome
    /\ result = Prim(Undefined)

\* the useState initial values of a freshly mounted component
FreshState ==
    /\ isModalOpen' = FALSE
    /\ position' = [x |-> 0, y |-> 0]
    /\ size' = DefaultSize
    /\ isDragging' = FALSE
    /\ isResizing' = FALSE
    /\ dragStart' = [x |-> 0, y |-> 0]
    /\ resizeStart' = [width |-> 0, height |-> 0]
    /\ error' = NoError
    /\ iframeError' = FALSE

InitViewer ==
    /\ mounted = TRUE
    /\ viewport \in Viewports
    /\ media \in MediaKinds
    /\ isModalOpen = FALSE
    /\ position = [x |-> 0, y |-> 0]
    /\ size = DefaultSize
    /\ isDragging = FALSE
    /\ isResizing = FALSE
    /\ dragStart = [x |-> 0, y |-> 0]
    /\ resizeStart = [width |-> 0, height |-> 0]
    /\ error = NoError
    /\ iframeError = FALSE
    /\ listeners = NoListeners
    /\ pointerDowns = 0
    /\ lastEvent = NoEvent

Init == InitClient /\ InitViewer

(***************************************************************************)
(* Client actions: one call of an operation, from request to result        *)
(***************************************************************************)
CallGenerateQuestionsFromDocument ==
    /\ \E ui \in InstructionValues, lm \in LiteralModes, o \in Outcomes(QuestionBodies) :
          /\ op' = "generateQuestionsFromDocumentAI"
          /\ request' = DocumentRequest(ui, lm)
          /\ outcome' = o
          /\ result' = generateQuestionsFromDocumentAI(o)
    /\ UNCHANGED viewerVars

CallGenerateQuestionsFromText ==
    /\ \E ui \in InstructionValues, lm \in LiteralModes, o \in Outcomes(QuestionBodies) :
          /\ op' = "generateQuestionsFromTextAI"
          /\ request' = TextRequest(ui, lm)
          /\ outcome' = o
          /\ result' = generateQuestionsFromTextAI(o)
    /\ UNCHANGED viewerVars

CallExplainAnswerChoice ==
    /\ \E o \in Outcomes(ExplainBodies) :
          /\ op' = "explainAnswerChoiceAI"
          /\ request' = ExplainRequest
          /\ outcome' = o
          /\ result' = explainAnswerChoiceAI(o)
    /\ UNCHANGED viewerVars

CallSendChatMessage ==
    /\ \E t \in ThreadIds, o \in Outcomes(ChatBodies) :
          /\ op' = "sendChatMessageToAI"
          /\ request' = ChatRequest(t)
          /\ outcome' = o
          /\ result' = sendChatMessageToAI(t, o)
    /\ UNCHANGED viewerVars

NextClient ==
    \/ CallGenerateQuestionsFromDocument
    \/ CallGenerateQuestionsFromText
    \/ CallExplainAnswerChoice
    \/ CallSendChatMessage

SpecClient == Init /\ [][NextClient]_vars

(***************************************************************************)
(* MediaDisplay actions: one handler each, with the re-render and the      *)
(* effect run it causes                                                    *)
(***************************************************************************)
\* the listeners after the commit of this handler's state updates
Commit(depsChanged) ==
    listeners' = useEffect(listeners, depsChanged, CurrentClosure, isModalOpen',
                           Closure(isDragging', isResizing', dragStart', resizeStart'))

\* handleOpenModal without setSize
handleOpenModal_KeepSize ==
    /\ mounted
    /\ isModalOpen' = TRUE
    /\ position' = OpenPosition(viewport)
    /\ size' = size
    /\ error' = NoError
    /\ UNCHANGED <<isDragging, isResizing, dragStart, resizeStart, iframeError>>
    /\ Commit(TRUE)
    /\ lastEvent' = Event("open", 0, 0)
    /\ UNCHANGED <<mounted, viewport, media, pointerDowns, clientVars>>

\* the "View Media" button's onClick
handleOpenModal ==
    /\ mounted
    /\ isModalOpen' = TRUE
    /\ position' = OpenPosition(viewport)
    /\ size' = DefaultSize
    /\ error' = NoError
    /\ UNCHANGED <<isDragging, isResizing, dragStart, resizeStart, iframeError>>
    /\ Commit(TRUE)
    /\ lastEvent' = Event("open", 0, 0)
    /\ UNCHANGED <<mounted, viewport, media, pointerDowns, clientVars>>

\* handleCloseModal's state updates
CloseUpdates ==
    /\ isModalOpen' = FALSE
    /\ isDragging' = FALSE
    /\ isResizing' = FALSE
    /\ error' = NoError
    /\ UNCHANGED <<position, size, dragStart, resizeStart, iframeError>>

\* the close button's onClick
handleCloseModal ==
    /\ mounted /\ isModalOpen
    /\ CloseUpdates
    /\ Commit(TRUE)
    /\ lastEvent' = Event("close", 0, 0)
    /\ UNCHANGED <<mounted, viewport, media, pointerDowns, clientVars>>

\* the document's mousedown listener, the target outside the window
handleClickOutside ==
    /\ mounted /\ isModalOpen
    /\ BagToSet(listeners.mousedown) # {}
    /\ CloseUpdates
    /\ Commit(TRUE)
    /\ lastEvent' = Event("clickOutside", 0, 0)
    /\ UNCHANGED <<mounted, viewport, media, pointerDowns, clientVars>>

\* the window's onMouseDown, the target on the chrome: not in the content
\* area, not a button, not the resize handle
handleMouseDown ==
    /\ mounted /\ isModalOpen
    /\ pointerDowns < MaxPointerDowns
    /\ \E off \in ChromeOffsets :
          LET rect == BoundingClientRect(size, viewport)
              e == Event("mouseDown", position.x + off.x, position.y + off.y)
          IN /\ off.x <= rect.width /\ off.y <= rect.height
             /\ isDragging' = TRUE
             /\ dragStart' = [x |-> e.clientX - position.x, y |-> e.clientY - position.y]
             /\ lastEvent' = e
    /\ UNCHANGED <<isModalOpen, position, size, isResizing, resizeStart, error, iframeError>>
    /\ Commit(TRUE)
    /\ pointerDowns' = pointerDowns + 1
    /\ UNCHANGED <<mounted, viewport, media, clientVars>>

\* the resize handle's onMouseDown
handleResizeMouseDown ==
    /\ mounted /\ isModalOpen
    /\ pointerDowns < MaxPointerDowns
    /\ \E inset \in HandleInsets :
          LET rect == BoundingClientRect(size, viewport)
              e == Event("resizeMouseDown", position.x + rect.width - inset,
                         position.y + rect.height - inset)
          IN /\ isResizing' = TRUE
             /\ dragStart' = [x |-> e.clientX, y |-> e.clientY]
             /\ resizeStart' = [width |-> size.width, height |-> size.height]
             /\ lastEvent' = e
    /\ UNCHANGED <<isModalOpen, position, size, isDragging, error, iframeError>>
    /\ Commit(TRUE)
    /\ pointerDowns' = pointerDowns + 1
    /\ UNCHANGED <<mounted, viewport, media, clientVars>>

\* the document's mousemove listener
handleMouseMove ==
    /\ mounted
    /\ \E c \in BagToSet(listeners.mousemove), p \in MovePointers :
          LET e == Event("mouseMove", p.x, p.y)
          IN \/ /\ c.isDragging
                /\ isModalOpen     \* modalRef.current is set while the window is rendered
                /\ position' = DragPosition(e, c.dragStart,
                                            BoundingClientRect(size, viewport), viewport)
                /\ size' = size
                /\ lastEvent' = Event("dragMove", p.x, p.y)
                /\ UNCHANGED <<isModalOpen, isDragging, isResizing, dragStart,
                               resizeStart, error, iframeError>>
                /\ Commit(TRUE)
             \/ /\ ~c.isDragging /\ c.isResizing
                /\ size' = ResizeSize(e, c.dragStart, c.resizeStart)
                /\ position' = position
                /\ lastEvent' = Event("resizeMove", p.x, p.y)
                /\ UNCHANGED <<isModalOpen, isDragging, isResizing, dragStart,
                               resizeStart, error, iframeError>>
                /\ Commit(FALSE)
    /\ UNCHANGED <<mounted, viewport, media, pointerDowns, clientVars>>

\* the document's mouseup listener
handleMouseUp ==
    /\ mounted
    /\ BagToSet(listeners.mouseup) # {}
    /\ isDragging' = FALSE
    /\ isResizing' = FALSE
    /\ UNCHANGED <<isModalOpen, position, size, dragStart, resizeStart, error, iframeError>>
    /\ Commit(isDragging \/ isResizing)
    /\ lastEvent' = Event("mouseUp", 0, 0)
    /\ UNCHANGED <<mounted, viewport, media, pointerDowns, clientVars>>

\* onError of the inline image, video or PDF element
MediaLoadError ==
    /\ mounted /\ isModalOpen /\ error = NoError
    /\ LoadErrorMessage(renderMedia(media)) # NoError
    /\ error' = LoadErrorMessage(renderMedia(media))
    /\ UNCHANGED <<isModalOpen, position, size, isDragging, isResizing, dragStart,
                   resizeStart, iframeError>>
    /\ Commit(FALSE)
    /\ lastEvent' = Event("mediaError", 0, 0)
    /\ UNCHANGED <<mounted, viewport, media, pointerDowns, clientVars>>

\* onLoad of the sandboxed frame, its document missing or empty
IframeLoadEmpty ==
    /\ mounted /\ isModalOpen /\ error = NoError
    /\ renderMedia(media) = "sandboxedFrame"
    /\ iframeError' = TRUE
    /\ UNCHANGED <<isModalOpen, position, size, isDragging, isResizing, dragStart,
                   resizeStart, error>>
    /\ Commit(FALSE)
    /\ lastEvent' = Event("iframeLoad", 0, 0)
    /\ UNCHANGED <<mounted, viewport, media, pointerDowns, clientVars>>

\* the component is torn down: the effect's cleanup runs, the state is dropped
Unmount ==
    /\ mounted
    /\ mounted' = FALSE
    /\ listeners' = RemoveListeners(listeners, CurrentClosure)
    /\ FreshState
    /\ pointerDowns' = 0
    /\ lastEvent' = Event("unmount", 0, 0)
    /\ UNCHANGED <<viewport, media, clientVars>>

\* the component is mounted again, with fresh state
Mount ==
    /\ ~mounted
    /\ mounted' = TRUE
    /\ viewport' \in Viewports
    /\ media' \in MediaKinds
    /\ FreshState
    /\ listeners' = listeners
    /\ lastEvent' = NoEvent
    /\ UNCHANGED <<pointerDowns, clientVars>>

NextViewer ==
    \/ handleOpenModal
    \/ handleCloseModal
    \/ handleClickOutside
    \/ handleMouseDown
    \/ handleResizeMouseDown
    \/ handleMouseMove
    \/ handleMouseUp
    \/ MediaLoadError
    \/ IframeLoadEmpty
    \/ Unmount
    \/ Mount

SpecViewer == Init /\ [][NextViewer]_vars

Next == NextClient \/ NextViewer
Spec == Init /\ [][Next]_vars

(***************************************************************************)
(* Properties of the client (checked under SpecClient)                     *)
(***************************************************************************)
Called == op # "none"
IsFailure == Called /\ outcome.kind # "ok"
NoResponse == Called /\ outcome.kind = "axiosNoResponse"
StructuredErrorBody == Called /\ outcome.kind = "axiosResponse" /\ outcome.data.kind = "object"
QuestionOps == {"generateQuestionsFromDocumentAI", "generateQuestionsFromTextAI"}

\* the operation-specific generic fallback string
GenericFallback(o) ==
    CASE o \in QuestionOps -> QuestionsUnexpectedMsg
      [] o = "explainAnswerChoiceAI" -> ExplainUnexpectedMsg
      [] OTHER -> defaultErrorMsg

\* C1: when the transport fails with a response that carries a structured
\* error body, the result's message is the body's detail when present, else
\* the body's message when present, else the operation's generic fallback.
\* ("Present" is read in the claim's favour as: a non-empty string.)
C1_MessageFromErrorBody ==
    StructuredErrorBody =>
        Get(result, "message") =
            (IF Truthy(Get(outcome.data, "detail")) THEN Get(outcome.data, "detail")
             ELSE IF Truthy(Get(outcome.data, "message")) THEN Get(outcome.data, "message")
             ELSE GenericFallback(op))

\* C2 as stated: on a pure network failure every operation resolves with
\* success false and a "failed to connect" message.
C2_FailedToConnectAllOps ==
    NoResponse =>
        /\ Get(result, "success") = False
        /\ Get(result, "message") \in {QuestionsConnectMsg, ExplainConnectMsg}

\* C2 amended: on a pure network failure every operation resolves with
\* success false; the message is the "failed to connect" fallback for the two
\* question generators and the explanation operation, and the generic chat
\* fallback for sendChatMessageToAI.
C2_NoResponseMessage ==
    NoResponse =>
        /\ result.kind = "object"
        /\ Get(result, "success") = False
        /\ Get(result, "message") =
              (CASE op \in QuestionOps -> QuestionsConnectMsg
                 [] op = "explainAnswerChoiceAI" -> ExplainConnectMsg
                 [] OTHER -> defaultErrorMsg)

C2_Witness ==
    /\ NoResponse
    /\ op = "sendChatMessageToAI"
    /\ Get(result, "success") = False
    /\ Get(result, "message") = defaultErrorMsg

\* C3: every failure of every operation resolves with a record whose
\* success field is false.
C3_FailureHasSuccessFalse ==
    IsFailure => (result.kind = "object" /\ Get(result, "success") = False)

\* C4: on every failure of sendChatMessageToAI the result has response "",
\* success false and thread_id equal to the request's thread_id, or "" when
\* the request supplied none (absent or null); thread_id is never undefined.
C4_ChatFailureEchoesThread ==
    (IsFailure /\ op = "sendChatMessageToAI") =>
        /\ result.kind = "object"
        /\ Get(result, "response") = EmptyStr
        /\ Get(result, "success") = False
        /\ Get(result, "thread_id") =
              (IF request.thread_id \in {Undefined, Null} THEN EmptyStr
               ELSE request.thread_id)
        /\ Get(result, "thread_id") # Undefined

C4_Witness ==
    /\ IsFailure /\ op = "sendChatMessageToAI"
    /\ outcome.kind = "axiosResponse"
    /\ request.thread_id = Null
    /\ Get(result, "thread_id") = EmptyStr

(***************************************************************************)
(* Properties of MediaDisplay (checked under SpecViewer)                   *)
(***************************************************************************)
Rect == BoundingClientRect(size, viewport)
InViewport ==
    /\ 0 <= position.x /\ position.x <= viewport.width - Rect.width
    /\ 0 <= position.y /\ position.y <= viewport.height - Rect.height
ListenerTypes == {"mousemove", "mouseup", "mousedown"}

\* C5 as stated: whenever the window is open and not being dragged, the
\* position lies inside [0, viewport - window] in both dimensions.
C5_PositionInViewport ==
    (mounted /\ isModalOpen /\ ~isDragging) => InViewport

\* C5 amended: the position is never negative, and right after every drag
\* pointer-move it lies inside [0, viewport - window] in both dimensions for
\* the window's measured size; an open or a resize may leave it beyond the
\* far edge.
C5_DragClampsPosition ==
    /\ position.x >= 0 /\ position.y >= 0
    /\ lastEvent.type = "dragMove" => InViewport

C5_Witness ==
    /\ lastEvent.type = "dragMove"
    /\ lastEvent.clientX - dragStart.x > viewport.width - Rect.width
    /\ position.x = viewport.width - Rect.width
    /\ position.y = viewport.height - Rect.height

\* C6: the size is never below 300 x 200, and every resize pointer-move sets
\* width to max(300, initial width + dx) and height to max(200, initial
\* height + dy), for dx, dy the pointer's distance from where the resize began.
C6_MinimumSize ==
    /\ size.width >= MinWidth /\ size.height >= MinHeight
    /\ lastEvent.type = "resizeMove" =>
          /\ size.width = Max(MinWidth, resizeStart.width + (lastEvent.clientX - dragStart.x))
          /\ size.height = Max(MinHeight, resizeStart.height + (lastEvent.clientY - dragStart.y))

\* from {800,600}, a delta of (-1000,-1000) gives exactly {300,200}
C6_Witness ==
    /\ lastEvent.type = "resizeMove"
    /\ resizeStart = [width |-> 800, height |-> 600]
    /\ lastEvent.clientX - dragStart.x = -1000
    /\ lastEvent.clientY - dragStart.y = -1000
    /\ size = [width |-> 300, height |-> 200]

\* C7: every open sets the size to {800,600} and the position to
\* {viewportWidth/8, viewportHeight/8}, whatever came before.
C7_OpenResetsGeometry ==
    lastEvent.type = "open" =>
        /\ isModalOpen
        /\ size = [width |-> 800, height |-> 600]
        /\ 8 * position.x = viewport.width
        /\ 8 * position.y = viewport.height

\* an open after a resize had changed the size
C7_Witness ==
    /\ lastEvent.type = "open"
    /\ resizeStart.width \notin {0, 800}
    /\ size = [width |-> 800, height |-> 600]
    /\ 8 * position.x = viewport.width

\* C8: a pointer-down outside the open window closes it, clears the dragging
\* and resizing flags and clears every displayed error, the media error and
\* the embedded frame's error alike.
C8_ClickOutsideClearsAll ==
    lastEvent.type = "clickOutside" =>
        /\ ~isModalOpen
        /\ ~isDragging /\ ~isResizing
        /\ error = NoError
        /\ ~iframeError

\* C9: each document-level listener is registered at most once, and only
\* while the component is mounted and the window open.
C9_ListenersScopedToOpen ==
    \A t \in ListenerTypes :
        /\ BagCardinality(listeners[t]) <= 1
        /\ BagCardinality(listeners[t]) > 0 => (mounted /\ isModalOpen)

\* closed again after two gestures, each of which re-ran the effect
C9_Witness ==
    /\ mounted /\ ~isModalOpen
    /\ lastEvent.type \in {"close", "clickOutside"}
    /\ pointerDowns >= 2
    /\ \A t \in ListenerTypes : BagCardinality(listeners[t]) = 0

\* C10: isDragging and isResizing are never both true, and neither is true
\* while the window is closed.
C10_FourLifecycleStates ==
    /\ ~(isDragging /\ isResizing)
    /\ ~isModalOpen => (~isDragging /\ ~isResizing)
====
